---- MODULE Spec2Model ----
(***************************************************************************)
(* django-autoinit: two-phase initialisation of a fleet of Django          *)
(* containers.  The model follows src/src/autoinit/orchestrator.py and the *)
(* management commands that wrap it.                                       *)
(*                                                                         *)
(* A process is one management-command invocation at a time; when its      *)
(* command has ended it may start another one (on any node, for any run    *)
(* id).  Shared state is the Django cache (readiness keys), the PostgreSQL *)
(* advisory lock 'autoinit_infrastructure', and on every node the marker   *)
(* files and their file locks.                                             *)
(*                                                                         *)
(* Time is the reading of time.monotonic() by each process, relative to    *)
(* the entry of the orchestrator function it is in and in units of the     *)
(* one-second poll interval.  It advances only while the process sleeps or *)
(* blocks on a lock, so any relative speed of the processes is a behaviour *)
(* of the model, and it is dropped (0) once the function has no timeout    *)
(* left to evaluate.                                                       *)
(*                                                                         *)
(* The environment decides, at each call: whether the database connection  *)
(* succeeds, and whether migrate / collectstatic / a hook / the cache      *)
(* write raises.  Cache reads and marker-file operations are reliable.     *)
(***************************************************************************)
EXTENDS Integers, Sequences, FiniteSets, TLC

\* ------------------------------------------------------------------ bounds
\* number of entries of INSTALLED_APPS
NApps == 3
\* the --timeout of every command, in poll intervals
Timeout == 1
\* commands started in one behaviour
MaxCalls == 2
\* set_ready set / clear commands and expiries in one behaviour
MaxAdminOps == 1

\* ------------------------------------------------- constants of the program
\* time.sleep(1) in the polling loops
PollInterval == 1

Procs == {"p1", "p2"}
RunIds == {"r1", "r2"}
Nodes == {"n1", "n2"}
NoProc == "none"

\* apps.get_app_configs(): the app configs in INSTALLED_APPS order; app 2 is
\* an AppConfig that does not inherit AutoInitMixin
INSTALLED_APPS == [i \in 1..NApps |-> i]
IsAutoInitMixin(app) == app # 2

RECURSIVE AppendMatching(_, _, _)
AppendMatching(configs, i, result) ==
    IF i > Len(configs) THEN result
    ELSE AppendMatching(configs, i + 1,
            IF IsAutoInitMixin(configs[i]) THEN Append(result, configs[i])
            ELSE result)

\* mutant: the list is built in reverse
get_apps_with_mixin_Reversed ==
    LET l == AppendMatching(INSTALLED_APPS, 1, <<>>)
    IN [i \in 1..Len(l) |-> l[Len(l) + 1 - i]]

get_apps_with_mixin == AppendMatching(INSTALLED_APPS, 1, <<>>)

Commands == {"autoinit_infrastructure", "autoinit_node", "autoinit"}

VARIABLES
    pc,             \* position of each process in its command
    cmd,            \* the management command the process runs
    run_id,         \* --run-id of the command
    node,           \* the node (marker directory) the command runs on
    fatal_on_error, \* --fatal-on-error of the command
    clock,          \* time.monotonic() of the process since function entry
    start,          \* `start` of the wait the process is in
    hk,             \* index of the next hook in the hook loop
    cache,          \* cache[r]: the readiness key of run r holds 1
    pgLock,         \* holder of the advisory lock, or NoProc
    fileLock,       \* fileLock[n][r]: holder of the node lock file, or NoProc
    marker,         \* marker[n][r]: the marker file exists
    exit_code,      \* exit status of the last command of the process
    stdio,          \* what the last command reported
    call,           \* history of the current (or last) command of the process
    hist,           \* history per run id
    nhist,          \* history per node and run id
    calls,          \* commands started so far
    adminOps        \* set_ready set / clear commands and expiries so far

vars == <<pc, cmd, run_id, node, fatal_on_error, clock, start, hk, cache,
          pgLock, fileLock, marker, exit_code, stdio, call, hist, nhist,
          calls, adminOps>>

\* ----------------------------------------------------------------- history
\* of one command: the results of its two phases, what it did (lock taken,
\* core step called, hooks called in order, the hooks that raised, readiness
\* written, marker created), the step an exception left the function from,
\* and what the command before it in the same process left behind: `again`,
\* the cluster phase of that command returned for the same run id and the
\* key is still set (lost0: the keys of the run id lost until then);
\* `nagain`, its node phase returned for the same node and run id
NoCall ==
    [ires |-> "none", nres |-> "none",
     pg |-> FALSE, mig |-> FALSE, ihooks |-> <<>>, iraised |-> 0, set |-> FALSE,
     sawReady |-> FALSE, fl |-> FALSE, static |-> FALSE, nhooks |-> <<>>,
     nraised |-> {}, mark |-> FALSE, failedAt |-> "none",
     again |-> FALSE, lost0 |-> 0, nagain |-> FALSE]

\* of one run id: migrate calls, hook calls per app, readiness writes of the
\* cluster phase, failed bodies, readiness keys lost, manual writes
NoHist ==
    [mig |-> 0, hooks |-> [a \in 1..NApps |-> 0], set |-> 0, fail |-> 0,
     lost |-> 0, manual |-> 0]

\* of one node and run id: collectstatic calls, marker creations
NoNodeHist == [static |-> 0, mark |-> 0]

Init ==
    /\ pc = [p \in Procs |-> "idle"]
    /\ cmd = [p \in Procs |-> "none"]
    /\ run_id = [p \in Procs |-> "r1"]
    /\ node = [p \in Procs |-> "n1"]
    /\ fatal_on_error = [p \in Procs |-> FALSE]
    /\ clock = [p \in Procs |-> 0]
    /\ start = [p \in Procs |-> 0]
    /\ hk = [p \in Procs |-> 1]
    /\ cache = [r \in RunIds |-> FALSE]
    /\ pgLock = NoProc
    /\ fileLock = [n \in Nodes |-> [r \in RunIds |-> NoProc]]
    /\ marker = [n \in Nodes |-> [r \in RunIds |-> FALSE]]
    /\ exit_code = [p \in Procs |-> -1]
    /\ stdio = [p \in Procs |-> "none"]
    /\ call = [p \in Procs |-> NoCall]
    /\ hist = [r \in RunIds |-> NoHist]
    /\ nhist = [n \in Nodes |-> [r \in RunIds |-> NoNodeHist]]
    /\ calls = 0
    /\ adminOps = 0

\* ------------------------------------------------------------ pure helpers
params == <<cmd, run_id, node, fatal_on_error>>
budget == <<calls, adminOps>>

\* class hierarchy: AutoInitTimeoutError and AutoInitInfrastructureError
\* derive from AutoInitError; anything else is a plain Exception
IsAutoInitError(e) ==
    e \in {"AutoInitError", "AutoInitTimeoutError", "AutoInitInfrastructureError"}

\* mutant: the stored value never compares equal to 1
is_ready_WrongType(r) == FALSE

\* cache.get(key) == 1
is_ready(r) == cache[r]

\* marker_path.exists()
check_node_marker(n, r) == marker[n][r]

\* mutant: the clock read by the waits does not advance
AfterSleep_Frozen(t) == t

\* time.monotonic() after time.sleep(1), or after a second blocked on a lock
AfterSleep(t) == t + PollInterval

\* elapsed = time.monotonic() - start
Elapsed(p) == clock[p] - start[p]

\* mutant: the poll gives up one interval early (>= for >)
PollTimedOut_OffByOne(p) == Elapsed(p) >= Timeout

\* `if elapsed > timeout: raise AutoInitTimeoutError` of the polling loops
PollTimedOut(p) == Elapsed(p) > Timeout

\* mutant: the acquisition keeps waiting after the timeout has passed
LockTimedOut_Late(p) == Elapsed(p) > Timeout

\* pglock.advisory(..., timeout=timeout) / FileLock(..., timeout=timeout):
\* the acquisition gives up once the wait has lasted `timeout`
LockTimedOut(p) == Elapsed(p) >= Timeout

\* mutant: the cluster hook loop is left after its first round
NextInfraPc_OneRound(i) == "set_ready"

\* the hook loop is over once every app of the list was visited
NextInfraPc(i) == IF i > Len(get_apps_with_mixin) THEN "set_ready" ELSE "infra_hooks"

\* mutant: the node hook loop is followed by the end of the with block
NextNodePc_NoMarker(i) ==
    IF i > Len(get_apps_with_mixin) THEN "release_node_lock" ELSE "node_hooks"

\* the node hook loop is over once every app of the list was visited
NextNodePc(i) == IF i > Len(get_apps_with_mixin) THEN "create_marker" ELSE "node_hooks"

\* what the command's `except AutoInitError` prints; any other exception
\* leaves the command as a traceback
Report(e) == IF IsAutoInitError(e) THEN "FAILED" ELSE "traceback"

\* ---------------------------------------------- leaving a phase (helpers)
\* the command ends: its locals are gone
EndCommand(p, code, said) ==
    /\ pc' = [pc EXCEPT ![p] = "idle"]
    /\ hk' = [hk EXCEPT ![p] = 1]
    /\ exit_code' = [exit_code EXCEPT ![p] = code]
    /\ stdio' = [stdio EXCEPT ![p] = said]

\* run_infrastructure_init returned: autoinit_infrastructure reports and
\* ends, autoinit goes on with run_node_init.  c is the history of p.
ReturnFromInfra(p, c) ==
    /\ clock' = [clock EXCEPT ![p] = 0]
    /\ start' = [start EXCEPT ![p] = 0]
    /\ IF cmd[p] = "autoinit"
       THEN /\ pc' = [pc EXCEPT ![p] = "wait_ready"]
            /\ hk' = [hk EXCEPT ![p] = 1]
            /\ call' = [call EXCEPT ![p] = [c EXCEPT !.ires = "ok", !.nres = "running"]]
            /\ UNCHANGED <<exit_code, stdio>>
       ELSE /\ EndCommand(p, 0, "completed")
            /\ call' = [call EXCEPT ![p] = [c EXCEPT !.ires = "ok"]]

\* a timeout error leaves the clock readings it was raised on
KeepClockOnTimeout(p, e) ==
    IF e = "AutoInitTimeoutError"
    THEN UNCHANGED <<clock, start>>
    ELSE /\ clock' = [clock EXCEPT ![p] = 0]
         /\ start' = [start EXCEPT ![p] = 0]

\* mutant: the command goes on with the node phase after the cluster phase
\* raised
RaiseFromInfra_GoesOn(p, c, e, at) ==
    /\ pc' = [pc EXCEPT ![p] = "wait_ready"]
    /\ hk' = [hk EXCEPT ![p] = 1]
    /\ clock' = [clock EXCEPT ![p] = 0]
    /\ start' = [start EXCEPT ![p] = 0]
    /\ call' = [call EXCEPT ![p] = [c EXCEPT !.ires = e, !.failedAt = at,
                                              !.nres = "running"]]
    /\ UNCHANGED <<exit_code, stdio>>

\* run_infrastructure_init raised e at step `at`: the command ends
RaiseFromInfra(p, c, e, at) ==
    /\ EndCommand(p, 1, Report(e))
    /\ KeepClockOnTimeout(p, e)
    /\ call' = [call EXCEPT ![p] = [c EXCEPT !.ires = e, !.failedAt = at]]

\* run_node_init returned: the command reports and ends
ReturnFromNode(p, c) ==
    /\ EndCommand(p, 0, "completed")
    /\ clock' = [clock EXCEPT ![p] = 0]
    /\ start' = [start EXCEPT ![p] = 0]
    /\ call' = [call EXCEPT ![p] = [c EXCEPT !.nres = "ok"]]

\* run_node_init raised e at step `at`: the command ends
RaiseFromNode(p, c, e, at) ==
    /\ EndCommand(p, 1, Report(e))
    /\ KeepClockOnTimeout(p, e)
    /\ call' = [call EXCEPT ![p] = [c EXCEPT !.nres = e, !.failedAt = at]]

\* --------------------------------------------------- management commands
\* the process calls run_infrastructure_init(r) a second time in sequence:
\* its last call returned for r, and the key it left is there
SameInfraInitAgain(p, r) ==
    call[p].ires = "ok" /\ run_id[p] = r /\ is_ready(r)

\* the process calls run_node_init(r) on node n a second time in sequence
SameNodeInitAgain(p, r, n) ==
    call[p].nres = "ok" /\ run_id[p] = r /\ node[p] = n

\* Command.handle of autoinit_infrastructure / autoinit_node / autoinit,
\* started on node n with --run-id r and --fatal-on-error f
Handle(p, c, r, n, f) ==
    /\ pc[p] = "idle"
    /\ calls < MaxCalls
    /\ c = "autoinit_infrastructure" => f = FALSE
    /\ calls' = calls + 1
    /\ cmd' = [cmd EXCEPT ![p] = c]
    /\ run_id' = [run_id EXCEPT ![p] = r]
    /\ node' = [node EXCEPT ![p] = n]
    /\ fatal_on_error' = [fatal_on_error EXCEPT ![p] = f]
    /\ clock' = [clock EXCEPT ![p] = 0]
    /\ start' = [start EXCEPT ![p] = 0]
    /\ hk' = [hk EXCEPT ![p] = 1]
    /\ exit_code' = [exit_code EXCEPT ![p] = -1]
    /\ stdio' = [stdio EXCEPT ![p] = "none"]
    /\ pc' = [pc EXCEPT ![p] = IF c = "autoinit_node" THEN "wait_ready" ELSE "wait_db"]
    /\ call' = [call EXCEPT ![p] =
            IF c = "autoinit_node"
            THEN [NoCall EXCEPT !.nres = "running",
                                !.nagain = SameNodeInitAgain(p, r, n)]
            ELSE [NoCall EXCEPT !.ires = "running",
                                !.again = SameInfraInitAgain(p, r),
                                !.lost0 = IF SameInfraInitAgain(p, r)
                                          THEN hist[r].lost ELSE 0,
                                !.nagain = c = "autoinit"
                                           /\ SameNodeInitAgain(p, r, n)]]
    /\ UNCHANGED <<cache, pgLock, fileLock, marker, hist, nhist, adminOps>>

\* ------------------------------------------------ run_infrastructure_init
\* wait_for_db: connection.ensure_connection() succeeded
DbConnected(p) ==
    /\ pc[p] = "wait_db"
    /\ pc' = [pc EXCEPT ![p] = "check_ready_1"]
    /\ UNCHANGED <<params, clock, start, hk, cache, pgLock, fileLock, marker,
                   exit_code, stdio, call, hist, nhist, budget>>

\* wait_for_db: the connection failed, the timeout is not exceeded: sleep(1)
DbRetry(p) ==
    /\ pc[p] = "wait_db"
    /\ ~PollTimedOut(p)
    /\ clock' = [clock EXCEPT ![p] = AfterSleep(@)]
    /\ UNCHANGED <<pc, params, start, hk, cache, pgLock, fileLock, marker,
                   exit_code, stdio, call, hist, nhist, budget>>

\* wait_for_db: the connection failed and elapsed > timeout
DbTimeout(p) ==
    /\ pc[p] = "wait_db"
    /\ PollTimedOut(p)
    /\ RaiseFromInfra(p, call[p], "AutoInitTimeoutError", "wait_db")
    /\ UNCHANGED <<params, cache, pgLock, fileLock, marker, hist, nhist, budget>>

\* mutant: the check before the lock accepts the key of any run id
AlreadyReady_AnyRun(r) == \E x \in RunIds : is_ready(x)

\* mutant: no check before the lock
AlreadyReady_Never(r) == FALSE

\* `if is_ready(run_id): return` before the lock
AlreadyReady(r) == is_ready(r)

InfraCheck1(p) ==
    /\ pc[p] = "check_ready_1"
    /\ IF AlreadyReady(run_id[p])
       THEN ReturnFromInfra(p, call[p])
       ELSE /\ pc' = [pc EXCEPT ![p] = "acquire_lock"]
            /\ start' = [start EXCEPT ![p] = clock[p]]
            /\ UNCHANGED <<clock, hk, exit_code, stdio, call>>
    /\ UNCHANGED <<params, cache, pgLock, fileLock, marker, hist, nhist, budget>>

\* mutant: the lock excludes nobody
PgFree_NoExclusion(r) == TRUE

\* mutant: the lock name is keyed by the run id
PgFree_PerRunId(r) == IF pgLock = NoProc THEN TRUE ELSE run_id[pgLock] # r

\* pglock.advisory('autoinit_infrastructure'): one lock name for every run id
PgFree(r) == pgLock = NoProc

\* the advisory lock is granted; no timeout is evaluated after this point
PgAcquire(p) ==
    /\ pc[p] = "acquire_lock"
    /\ PgFree(run_id[p])
    /\ pgLock' = p
    /\ pc' = [pc EXCEPT ![p] = "check_ready_2"]
    /\ clock' = [clock EXCEPT ![p] = 0]
    /\ start' = [start EXCEPT ![p] = 0]
    /\ call' = [call EXCEPT ![p].pg = TRUE]
    /\ UNCHANGED <<params, hk, cache, fileLock, marker, exit_code, stdio,
                   hist, nhist, budget>>

\* the advisory lock is held by another session: the process blocks
PgWait(p) ==
    /\ pc[p] = "acquire_lock"
    /\ ~PgFree(run_id[p])
    /\ ~LockTimedOut(p)
    /\ clock' = [clock EXCEPT ![p] = AfterSleep(@)]
    /\ UNCHANGED <<pc, params, start, hk, cache, pgLock, fileLock, marker,
                   exit_code, stdio, call, hist, nhist, budget>>

\* `if not acquired: raise AutoInitTimeoutError`
PgTimeout(p) ==
    /\ pc[p] = "acquire_lock"
    /\ ~PgFree(run_id[p])
    /\ LockTimedOut(p)
    /\ RaiseFromInfra(p, call[p], "AutoInitTimeoutError", "acquire_lock")
    /\ UNCHANGED <<params, cache, pgLock, fileLock, marker, hist, nhist, budget>>

\* mutant: the lock stays with the process that leaves the block
PgReleased_Leaked(p) == p

\* leaving the `with pglock.advisory(...)` block releases the lock
PgReleased(p) == NoProc

\* mutant: a failed attempt counts as progress: the next holder of the lock
\* leaves the body to it
ReadyInsideLock_AfterFailure(r) == is_ready(r) \/ hist[r].fail > 0

\* mutant: no second check inside the lock
ReadyInsideLock_NoDoubleCheck(r) == FALSE

\* `if is_ready(run_id): return` inside the lock
ReadyInsideLock(r) == is_ready(r)

InfraCheck2(p) ==
    /\ pc[p] = "check_ready_2"
    /\ IF ReadyInsideLock(run_id[p])
       THEN /\ pgLock' = PgReleased(p)
            /\ ReturnFromInfra(p, call[p])
       ELSE /\ pc' = [pc EXCEPT ![p] = "migrate"]
            /\ UNCHANGED <<pgLock, clock, start, hk, exit_code, stdio, call>>
    /\ UNCHANGED <<params, cache, fileLock, marker, hist, nhist, budget>>

\* the `except Exception` of the body: wrap, leave the with block
InfraFailed(p, c, at) ==
    /\ pgLock' = PgReleased(p)
    /\ RaiseFromInfra(p, c, "AutoInitInfrastructureError", at)

\* _run_migrations(): call_command('migrate') returns (ok) or raises
RunMigrations(p, ok) ==
    /\ pc[p] = "migrate"
    /\ hist' = [hist EXCEPT ![run_id[p]].mig = @ + 1,
                            ![run_id[p]].fail = IF ok THEN @ ELSE @ + 1]
    /\ IF ok
       THEN /\ pc' = [pc EXCEPT ![p] = NextInfraPc(1)]
            /\ call' = [call EXCEPT ![p].mig = TRUE]
            /\ UNCHANGED <<pgLock, clock, start, hk, exit_code, stdio>>
       ELSE InfraFailed(p, [call[p] EXCEPT !.mig = TRUE], "migrate")
    /\ UNCHANGED <<params, cache, fileLock, marker, nhist, budget>>

\* mutant: the failure of a cluster hook is swallowed
InfraHookAborts_Swallowed(ok) == FALSE

\* what the hook loop does when handle_infrastructure_init raised: the
\* exception leaves the loop
InfraHookAborts(ok) == ~ok

\* app_config.handle_infrastructure_init() of the next app returns or raises
InfraHook(p, ok) ==
    /\ pc[p] = "infra_hooks"
    /\ LET app == get_apps_with_mixin[hk[p]]
           c == [call[p] EXCEPT !.ihooks = Append(@, app),
                                !.iraised = IF ok THEN @ ELSE app]
       IN /\ hist' = [hist EXCEPT ![run_id[p]].hooks[app] = @ + 1,
                                  ![run_id[p]].fail = IF ok THEN @ ELSE @ + 1]
          /\ IF InfraHookAborts(ok)
             THEN InfraFailed(p, c, "infra_hooks")
             ELSE /\ hk' = [hk EXCEPT ![p] = @ + 1]
                  /\ pc' = [pc EXCEPT ![p] = NextInfraPc(hk[p] + 1)]
                  /\ call' = [call EXCEPT ![p] = c]
                  /\ UNCHANGED <<pgLock, clock, start, exit_code, stdio>>
    /\ UNCHANGED <<params, cache, fileLock, marker, nhist, budget>>

\* set_ready(run_id): cache.set(key, 1, timeout=86400) returns or raises
InfraSetReady(p, ok) ==
    /\ pc[p] = "set_ready"
    /\ IF ok
       THEN /\ cache' = [cache EXCEPT ![run_id[p]] = TRUE]
            /\ hist' = [hist EXCEPT ![run_id[p]].set = @ + 1]
            /\ pc' = [pc EXCEPT ![p] = "release_lock"]
            /\ call' = [call EXCEPT ![p].set = TRUE]
            /\ UNCHANGED <<pgLock, clock, start, hk, exit_code, stdio>>
       ELSE /\ hist' = [hist EXCEPT ![run_id[p]].fail = @ + 1]
            /\ InfraFailed(p, call[p], "set_ready")
            /\ UNCHANGED cache
    /\ UNCHANGED <<params, fileLock, marker, nhist, budget>>

\* the with block ends normally: the lock is released, the function returns
InfraRelease(p) ==
    /\ pc[p] = "release_lock"
    /\ pgLock' = PgReleased(p)
    /\ ReturnFromInfra(p, call[p])
    /\ UNCHANGED <<params, cache, fileLock, marker, hist, nhist, budget>>

\* ------------------------------------------------------------ run_node_init
\* mutant: the readiness key is not versioned by the run id
ReadyObserved_AnyRun(r) == \E x \in RunIds : is_ready(x)

\* mutant: a marker of the run id ends the wait like the key does
ReadyObserved_OrMarker(r) ==
    is_ready(r) \/ \E n \in Nodes : check_node_marker(n, r)

\* mutant: the poll never sees the key
ReadyObserved_Never(r) == FALSE

\* what wait_for_ready takes as "ready": is_ready of the run id of the call
ReadyObserved(r) == is_ready(r)

\* wait_for_ready: is_ready(run_id) holds, the loop ends
WaitReadySeen(p) ==
    /\ pc[p] = "wait_ready"
    /\ ReadyObserved(run_id[p])
    /\ pc' = [pc EXCEPT ![p] = "check_marker_1"]
    /\ call' = [call EXCEPT ![p].sawReady = is_ready(run_id[p])]
    /\ UNCHANGED <<params, clock, start, hk, cache, pgLock, fileLock, marker,
                   exit_code, stdio, hist, nhist, budget>>

\* wait_for_ready: not ready, the timeout is not exceeded: sleep(1)
WaitReadySleep(p) ==
    /\ pc[p] = "wait_ready"
    /\ ~ReadyObserved(run_id[p])
    /\ ~PollTimedOut(p)
    /\ clock' = [clock EXCEPT ![p] = AfterSleep(@)]
    /\ UNCHANGED <<pc, params, start, hk, cache, pgLock, fileLock, marker,
                   exit_code, stdio, call, hist, nhist, budget>>

\* wait_for_ready: not ready and elapsed > timeout
WaitReadyTimeout(p) ==
    /\ pc[p] = "wait_ready"
    /\ ~ReadyObserved(run_id[p])
    /\ PollTimedOut(p)
    /\ RaiseFromNode(p, call[p], "AutoInitTimeoutError", "wait_ready")
    /\ UNCHANGED <<params, cache, pgLock, fileLock, marker, hist, nhist, budget>>

\* `if _check_node_marker(run_id): return` before the lock
\* mutant: no marker check before the lock
MarkerFastPath_Never(n, r) == FALSE

\* `if _check_node_marker(run_id): return` before the lock
MarkerFastPath(n, r) == check_node_marker(n, r)

NodeCheck1(p) ==
    /\ pc[p] = "check_marker_1"
    /\ IF MarkerFastPath(node[p], run_id[p])
       THEN ReturnFromNode(p, call[p])
       ELSE /\ pc' = [pc EXCEPT ![p] = "acquire_node_lock"]
            /\ start' = [start EXCEPT ![p] = clock[p]]
            /\ UNCHANGED <<clock, hk, exit_code, stdio, call>>
    /\ UNCHANGED <<params, cache, pgLock, fileLock, marker, hist, nhist, budget>>

\* the lock file is marker_path.with_suffix('.lock'): one per node and run id
FileFree(n, r) == fileLock[n][r] = NoProc

\* FileLock(lock_path, timeout=timeout) is acquired; no timeout is evaluated
\* after this point
FileAcquire(p) ==
    /\ pc[p] = "acquire_node_lock"
    /\ FileFree(node[p], run_id[p])
    /\ fileLock' = [fileLock EXCEPT ![node[p]][run_id[p]] = p]
    /\ pc' = [pc EXCEPT ![p] = "check_marker_2"]
    /\ clock' = [clock EXCEPT ![p] = 0]
    /\ start' = [start EXCEPT ![p] = 0]
    /\ call' = [call EXCEPT ![p].fl = TRUE]
    /\ UNCHANGED <<params, hk, cache, pgLock, marker, exit_code, stdio,
                   hist, nhist, budget>>

\* the lock file is held by another process: the process keeps polling it
FileWait(p) ==
    /\ pc[p] = "acquire_node_lock"
    /\ ~FileFree(node[p], run_id[p])
    /\ ~LockTimedOut(p)
    /\ clock' = [clock EXCEPT ![p] = AfterSleep(@)]
    /\ UNCHANGED <<pc, params, start, hk, cache, pgLock, fileLock, marker,
                   exit_code, stdio, call, hist, nhist, budget>>

\* `except Timeout: raise AutoInitTimeoutError`
FileTimeout(p) ==
    /\ pc[p] = "acquire_node_lock"
    /\ ~FileFree(node[p], run_id[p])
    /\ LockTimedOut(p)
    /\ RaiseFromNode(p, call[p], "AutoInitTimeoutError", "acquire_node_lock")
    /\ UNCHANGED <<params, cache, pgLock, fileLock, marker, hist, nhist, budget>>

\* leaving the `with FileLock(...)` block releases the lock
FileReleased(p) == NoProc

\* mutant: no second marker check inside the lock
MarkerInsideLock_NoDoubleCheck(n, r) == FALSE

\* `if _check_node_marker(run_id): return` inside the lock
MarkerInsideLock(n, r) == check_node_marker(n, r)

NodeCheck2(p) ==
    /\ pc[p] = "check_marker_2"
    /\ IF MarkerInsideLock(node[p], run_id[p])
       THEN /\ fileLock' = [fileLock EXCEPT ![node[p]][run_id[p]] = FileReleased(p)]
            /\ ReturnFromNode(p, call[p])
       ELSE /\ pc' = [pc EXCEPT ![p] = "collectstatic"]
            /\ UNCHANGED <<fileLock, clock, start, hk, exit_code, stdio, call>>
    /\ UNCHANGED <<params, cache, pgLock, marker, hist, nhist, budget>>

\* an exception other than filelock.Timeout leaves run_node_init as it is
NodeFailed(p, c, at) ==
    /\ fileLock' = [fileLock EXCEPT ![node[p]][run_id[p]] = FileReleased(p)]
    /\ RaiseFromNode(p, c, "Exception", at)

\* _run_collectstatic(): call_command('collectstatic') returns or raises
RunCollectstatic(p, ok) ==
    /\ pc[p] = "collectstatic"
    /\ nhist' = [nhist EXCEPT ![node[p]][run_id[p]].static = @ + 1]
    /\ IF ok
       THEN /\ pc' = [pc EXCEPT ![p] = NextNodePc(1)]
            /\ call' = [call EXCEPT ![p].static = TRUE]
            /\ UNCHANGED <<fileLock, clock, start, hk, exit_code, stdio>>
       ELSE NodeFailed(p, [call[p] EXCEPT !.static = TRUE], "collectstatic")
    /\ UNCHANGED <<params, cache, pgLock, marker, hist, budget>>

\* mutant: a raising node hook always ends the loop
NodeHookAborts_Always(ok, f) == ~ok

\* `if fatal_on_error: raise` in the except clause of the node hook loop
NodeHookAborts(ok, f) == ~ok /\ f

\* app_config.handle_node_init() of the next app returns or raises
NodeHook(p, ok) ==
    /\ pc[p] = "node_hooks"
    /\ LET app == get_apps_with_mixin[hk[p]]
           c == [call[p] EXCEPT !.nhooks = Append(@, app),
                                !.nraised = IF ok THEN @ ELSE @ \cup {app}]
       IN IF NodeHookAborts(ok, fatal_on_error[p])
          THEN NodeFailed(p, c, "node_hooks")
          ELSE /\ hk' = [hk EXCEPT ![p] = @ + 1]
               /\ pc' = [pc EXCEPT ![p] = NextNodePc(hk[p] + 1)]
               /\ call' = [call EXCEPT ![p] = c]
               /\ UNCHANGED <<fileLock, clock, start, exit_code, stdio>>
    /\ UNCHANGED <<params, cache, pgLock, marker, hist, nhist, budget>>

\* mutant: creating the marker of a run id removes the markers the other
\* nodes hold for it
create_node_marker_Only(m, n, r) ==
    [x \in Nodes |-> [y \in RunIds |-> IF y = r THEN x = n ELSE m[x][y]]]

\* marker_path.parent.mkdir(parents=True, exist_ok=True); marker_path.touch()
create_node_marker(m, n, r) == [m EXCEPT ![n][r] = TRUE]

\* _create_node_marker(run_id): marker_path.touch()
CreateMarker(p) ==
    /\ pc[p] = "create_marker"
    /\ marker' = create_node_marker(marker, node[p], run_id[p])
    /\ nhist' = [nhist EXCEPT ![node[p]][run_id[p]].mark = @ + 1]
    /\ pc' = [pc EXCEPT ![p] = "release_node_lock"]
    /\ call' = [call EXCEPT ![p].mark = TRUE]
    /\ UNCHANGED <<params, clock, start, hk, cache, pgLock, fileLock,
                   exit_code, stdio, hist, budget>>

\* the with block ends normally: the lock is released, the function returns
NodeRelease(p) ==
    /\ pc[p] = "release_node_lock"
    /\ fileLock' = [fileLock EXCEPT ![node[p]][run_id[p]] = FileReleased(p)]
    /\ ReturnFromNode(p, call[p])
    /\ UNCHANGED <<params, cache, pgLock, marker, hist, nhist, budget>>

\* ------------------------------------------- readiness set from the outside
\* `manage.py set_ready set`: set_ready(run_id)
SetReadyCommand(r) ==
    /\ adminOps < MaxAdminOps
    /\ adminOps' = adminOps + 1
    /\ cache' = [cache EXCEPT ![r] = TRUE]
    /\ hist' = [hist EXCEPT ![r].manual = @ + 1]
    /\ UNCHANGED <<pc, params, clock, start, hk, pgLock, fileLock, marker,
                   exit_code, stdio, call, nhist, calls>>

\* `manage.py set_ready clear`: clear_ready(run_id), cache.delete(key)
ClearReadyCommand(r) ==
    /\ adminOps < MaxAdminOps
    /\ adminOps' = adminOps + 1
    /\ cache' = [cache EXCEPT ![r] = FALSE]
    /\ hist' = [hist EXCEPT ![r].lost = IF cache[r] THEN @ + 1 ELSE @]
    /\ UNCHANGED <<pc, params, clock, start, hk, pgLock, fileLock, marker,
                   exit_code, stdio, call, nhist, calls>>

\* `manage.py set_ready check`: is_ready(run_id), nothing is written
CheckReadyCommand(r) ==
    /\ is_ready(r) \in BOOLEAN
    /\ UNCHANGED vars

\* the key was written with timeout=86400: the cache drops it when it expires
ReadinessExpires(r) ==
    /\ adminOps < MaxAdminOps
    /\ cache[r]
    /\ adminOps' = adminOps + 1
    /\ cache' = [cache EXCEPT ![r] = FALSE]
    /\ hist' = [hist EXCEPT ![r].lost = @ + 1]
    /\ UNCHANGED <<pc, params, clock, start, hk, pgLock, fileLock, marker,
                   exit_code, stdio, call, nhist, calls>>

\* ------------------------------------------------------------ specification
\* the steps of run_infrastructure_init
InfraStep(p) ==
    \/ DbConnected(p)
    \/ DbRetry(p)
    \/ DbTimeout(p)
    \/ InfraCheck1(p)
    \/ PgAcquire(p)
    \/ PgWait(p)
    \/ PgTimeout(p)
    \/ InfraCheck2(p)
    \/ \E ok \in BOOLEAN : RunMigrations(p, ok)
    \/ \E ok \in BOOLEAN : InfraHook(p, ok)
    \/ \E ok \in BOOLEAN : InfraSetReady(p, ok)
    \/ InfraRelease(p)

\* the steps of run_node_init
NodeStep(p) ==
    \/ WaitReadySeen(p)
    \/ WaitReadySleep(p)
    \/ WaitReadyTimeout(p)
    \/ NodeCheck1(p)
    \/ FileAcquire(p)
    \/ FileWait(p)
    \/ FileTimeout(p)
    \/ NodeCheck2(p)
    \/ \E ok \in BOOLEAN : RunCollectstatic(p, ok)
    \/ \E ok \in BOOLEAN : NodeHook(p, ok)
    \/ CreateMarker(p)
    \/ NodeRelease(p)

\* the set_ready command, for the run ids R
AdminStep(R) ==
    \/ \E r \in R : SetReadyCommand(r)
    \/ \E r \in R : ClearReadyCommand(r)
    \/ \E r \in R : CheckReadyCommand(r)

\* the cache drops the keys of the run ids R that the cluster phase wrote
ExpiryStep(R) == \E r \in R : ReadinessExpires(r)

\* The whole system: any command, for any run id, on any node.
Next ==
    \/ \E p \in Procs, c \in Commands, r \in RunIds, n \in Nodes, f \in BOOLEAN :
            Handle(p, c, r, n, f)
    \/ \E p \in Procs : InfraStep(p)
    \/ \E p \in Procs : NodeStep(p)
    \/ AdminStep(RunIds)
    \/ ExpiryStep(RunIds)

Spec == Init /\ [][Next]_vars

\* The cluster phase alone: every container runs autoinit_infrastructure,
\* for either run id.  run_infrastructure_init reads and writes no marker
\* and no node lock, so the node it runs on is immaterial.
NextCluster ==
    \/ \E p \in Procs, r \in RunIds :
            Handle(p, "autoinit_infrastructure", r, "n1", FALSE)
    \/ \E p \in Procs : InfraStep(p)
    \/ AdminStep(RunIds)
    \/ ExpiryStep(RunIds)

SpecCluster == Init /\ [][NextCluster]_vars

\* The node phase alone: every container runs autoinit_node, for either run
\* id, on either node.  No cluster phase writes the key here: it is set and
\* deleted by the set_ready command only.
NextNode ==
    \/ \E p \in Procs, r \in RunIds, n \in Nodes, f \in BOOLEAN :
            Handle(p, "autoinit_node", r, n, f)
    \/ \E p \in Procs : NodeStep(p)
    \/ AdminStep(RunIds)

SpecNode == Init /\ [][NextNode]_vars

\* One deployment on one node: every container runs the combined autoinit
\* command (cluster phase, then node phase) for run id r1 on node n1.
NextCombined ==
    \/ \E p \in Procs, f \in BOOLEAN : Handle(p, "autoinit", "r1", "n1", f)
    \/ \E p \in Procs : InfraStep(p)
    \/ \E p \in Procs : NodeStep(p)
    \/ AdminStep({"r1"})
    \/ ExpiryStep({"r1"})

SpecCombined == Init /\ [][NextCombined]_vars

\* One start of the deployment: every container runs the combined command
\* once, for run id r1 on node n1.
NextOnce ==
    \/ \E p \in Procs, f \in BOOLEAN :
            cmd[p] = "none" /\ Handle(p, "autoinit", "r1", "n1", f)
    \/ \E p \in Procs : InfraStep(p)
    \/ \E p \in Procs : NodeStep(p)
    \/ AdminStep({"r1"})
    \/ ExpiryStep({"r1"})

\* A process inside run_infrastructure_init or run_node_init is not stopped:
\* a sleep(1) returns, a blocked acquisition is granted or times out, a
\* called core step or hook returns or raises.
Progress ==
    \A p \in Procs : WF_vars(InfraStep(p)) /\ WF_vars(NodeStep(p))

SpecOnceFair == Init /\ [][NextOnce]_vars /\ Progress

\* ------------------------------------------------------------------ claims
Hooks == get_apps_with_mixin

\* where a process holds the advisory lock: the body of the with block
InfraBodyPcs == {"check_ready_2", "migrate", "infra_hooks", "set_ready", "release_lock"}

\* where a process holds the node lock: the body of the with block
NodeBodyPcs == {"check_marker_2", "collectstatic", "node_hooks", "create_marker",
                "release_node_lock"}

\* the command of p has ended
Finished(p) == pc[p] = "idle" /\ cmd[p] # "none"

\* s is the list of hooks up to and including some hook
IsHookPrefix(s) == Len(s) <= Len(Hooks) /\ s = SubSeq(Hooks, 1, Len(s))

\* C1 as stated: for every run id and every interleaving of the processes
\* calling run_infrastructure_init (the readiness key left alone by everyone
\* else), the core step and every cluster hook execute exactly once in total
\* and readiness is set exactly once: never more than once, and once as soon
\* as every process has ended a call for the run id that did not time out.
C1_ExactlyOnceAlways ==
    \A r \in RunIds :
        (hist[r].manual = 0 /\ hist[r].lost = 0)
           => /\ hist[r].mig <= 1
              /\ \A i \in 1..Len(Hooks) : hist[r].hooks[Hooks[i]] <= 1
              /\ hist[r].set <= 1
              /\ (\A p \in Procs : /\ Finished(p)
                                   /\ run_id[p] = r
                                   /\ call[p].ires # "AutoInitTimeoutError")
                    => /\ hist[r].mig = 1
                       /\ \A i \in 1..Len(Hooks) : hist[r].hooks[Hooks[i]] = 1
                       /\ hist[r].set = 1

\* C1 (amended): for every run id, the core step is called at most once
\* more than the number of failed bodies and lost readiness keys, no hook
\* more often than the core step, and readiness is set by the cluster phase
\* at most once more than the key was lost; when nothing failed, the key was
\* never lost nor set by hand and some call returned, all of them happened
\* exactly once.
C1_OncePerReadiness ==
    \A r \in RunIds :
        /\ hist[r].mig <= 1 + hist[r].fail + hist[r].lost
        /\ \A i \in 1..Len(Hooks) : hist[r].hooks[Hooks[i]] <= hist[r].mig
        /\ hist[r].set <= 1 + hist[r].lost
        /\ ( /\ hist[r].fail = 0
             /\ hist[r].lost = 0
             /\ hist[r].manual = 0
             /\ \E p \in Procs : run_id[p] = r /\ call[p].ires = "ok" )
              => /\ hist[r].mig = 1
                 /\ \A i \in 1..Len(Hooks) : hist[r].hooks[Hooks[i]] = 1
                 /\ hist[r].set = 1

\* C1 witness: two calls for one run id have returned, one ran the body, the
\* other took the lock and left at the check inside it
C1_Witness ==
    \E p, q \in Procs :
        /\ p # q /\ run_id[p] = run_id[q]
        /\ Finished(p) /\ call[p].ires = "ok" /\ call[p].set
        /\ Finished(q) /\ call[q].ires = "ok" /\ call[q].pg /\ ~call[q].mig
        /\ hist[run_id[p]].mig = 1

\* C2 as stated: for a run id, over any sequence of operations, no two
\* processes have both executed the protected cluster-phase body to the
\* completion that sets the readiness record
C2_AtMostOneCompletionEver ==
    \A p, q \in Procs :
        (run_id[p] = run_id[q] /\ call[p].set /\ call[q].set) => p = q

\* C2 (amended): at most one process is in the protected body at any time,
\* and for a run id at most one process completes it for as long as the
\* readiness key is not lost (clear_ready or expiry): every loss of the key
\* allows one more completion.
C2_OneCompletionPerKey ==
    /\ \A p, q \in Procs :
          (pc[p] \in InfraBodyPcs /\ pc[q] \in InfraBodyPcs) => p = q
    /\ \A r \in RunIds : hist[r].set <= 1 + hist[r].lost
    /\ \A p, q \in Procs :
          (p # q /\ run_id[p] = run_id[q] /\ call[p].set /\ call[q].set)
             => hist[run_id[p]].lost >= 1

\* C2 witness: the key was lost once and the body was completed twice
C2_Witness ==
    \E r \in RunIds : hist[r].set = 2 /\ hist[r].lost = 1

\* C3: for a node and a run id, at most one process completes the protected
\* node-phase body and creates the marker, at most one process is in that
\* body at a time, and the marker exists exactly when it was created.
C3_MarkerCreatedOnce ==
    /\ \A n \in Nodes, r \in RunIds :
          /\ nhist[n][r].mark <= 1
          /\ marker[n][r] <=> nhist[n][r].mark = 1
    /\ \A p, q \in Procs :
          ( /\ pc[p] \in NodeBodyPcs /\ pc[q] \in NodeBodyPcs
            /\ node[p] = node[q] /\ run_id[p] = run_id[q] ) => p = q

\* C3 witness: two calls on one node for one run id have returned, one
\* created the marker, the other took the lock and found it
C3_Witness ==
    \E p, q \in Procs :
        /\ p # q /\ node[p] = node[q] /\ run_id[p] = run_id[q]
        /\ Finished(p) /\ call[p].mark
        /\ Finished(q) /\ call[q].nres = "ok" /\ call[q].fl /\ ~call[q].mark

\* C4: a process is in the protected node-phase body (or has called
\* collectstatic, a node hook or created a marker) only if it has seen the
\* readiness key of its own run id set.
C4_BodyOnlyAfterReadiness ==
    \A p \in Procs :
        ( \/ pc[p] \in NodeBodyPcs
          \/ call[p].fl \/ call[p].static \/ call[p].mark
          \/ call[p].nhooks # <<>> ) => call[p].sawReady

\* C4 witness: a process is in the node hook loop while the key of the other
\* run id is not set
C4_Witness ==
    \E p \in Procs :
        /\ pc[p] = "node_hooks" /\ call[p].sawReady
        /\ \E r \in RunIds : r # run_id[p] /\ ~cache[r]

\* C5: each lock is held by exactly the process that is inside the with
\* block on it, so by at most one, and by no process that has left
\* run_infrastructure_init or run_node_init, on whatever path.
C5_LocksHeldOnlyInside ==
    /\ pgLock \in Procs \cup {NoProc}
    /\ \A p \in Procs : pgLock = p <=> pc[p] \in InfraBodyPcs
    /\ \A p \in Procs, n \in Nodes, r \in RunIds :
          fileLock[n][r] = p
             <=> (pc[p] \in NodeBodyPcs /\ node[p] = n /\ run_id[p] = r)

\* C5 witness: a process has left the body on a hook failure and another
\* process holds the advisory lock
C5_Witness ==
    \E p, q \in Procs :
        /\ p # q
        /\ Finished(p) /\ call[p].failedAt = "infra_hooks"
        /\ pgLock = q

\* C6: when migrate, a cluster hook or the readiness write raises, the call
\* has failed with AutoInitInfrastructureError, no hook after the failing
\* one was called, the call has not set readiness and holds no lock.
C6_BodyFailureAborts ==
    \A p \in Procs :
        ( \/ call[p].failedAt \in {"migrate", "infra_hooks", "set_ready"}
          \/ call[p].iraised # 0 )
           => /\ pc[p] = "idle"
              /\ call[p].ires = "AutoInitInfrastructureError"
              /\ ~call[p].set
              /\ pgLock # p
              /\ call[p].failedAt = "migrate" => call[p].ihooks = <<>>
              /\ call[p].failedAt = "set_ready" => call[p].ihooks = Hooks
              /\ call[p].iraised # 0
                    => /\ call[p].failedAt = "infra_hooks"
                       /\ IsHookPrefix(call[p].ihooks)
                       /\ call[p].ihooks # <<>>
                       /\ call[p].ihooks[Len(call[p].ihooks)] = call[p].iraised

\* C6 witness: the first of several cluster hooks raised
C6_Witness ==
    \E p \in Procs :
        /\ Len(Hooks) > 1
        /\ call[p].iraised = Hooks[1]
        /\ call[p].ires = "AutoInitInfrastructureError"
        /\ pgLock = NoProc

\* C7: when a node hook has raised: without fatal_on_error the loop goes on
\* to the last hook, the marker is created only after the whole loop and the
\* call returns; with fatal_on_error the raising hook is the last one
\* called, no marker is created and the call has failed.
C7_NodeHookPolicy ==
    \A p \in Procs :
        call[p].nraised # {}
           => IF fatal_on_error[p]
              THEN /\ pc[p] = "idle"
                   /\ call[p].nres \notin {"ok", "running", "none"}
                   /\ ~call[p].mark
                   /\ Cardinality(call[p].nraised) = 1
                   /\ call[p].nhooks[Len(call[p].nhooks)] \in call[p].nraised
              ELSE /\ IsHookPrefix(call[p].nhooks)
                   /\ pc[p] \in {"node_hooks", "create_marker",
                                 "release_node_lock", "idle"}
                   /\ pc[p] # "node_hooks" => call[p].nhooks = Hooks
                   /\ call[p].mark => call[p].nhooks = Hooks
                   /\ pc[p] = "idle" => call[p].mark /\ call[p].nres = "ok"

\* C7 witness: the first node hook raised, the call went on and returned
\* with the marker created
C7_Witness ==
    \E p \in Procs :
        /\ ~fatal_on_error[p]
        /\ Len(Hooks) > 1 /\ Hooks[1] \in call[p].nraised
        /\ Finished(p) /\ call[p].mark

\* C8: a node-phase call that has not seen readiness is still waiting, no
\* longer than one poll past the timeout, or has failed with
\* AutoInitTimeoutError after more than the timeout; it has taken no lock,
\* called no core step, no hook, and created no marker.
C8_ReadinessTimeoutNoEffects ==
    \A p \in Procs :
        /\ pc[p] = "wait_ready" => Elapsed(p) <= Timeout + PollInterval
        /\ (call[p].nres # "none" /\ ~call[p].sawReady)
              => /\ pc[p] \in {"wait_ready", "idle"}
                 /\ pc[p] = "idle"
                       => /\ call[p].nres = "AutoInitTimeoutError"
                          /\ call[p].failedAt = "wait_ready"
                          /\ Elapsed(p) > Timeout
                 /\ ~call[p].fl /\ ~call[p].static /\ ~call[p].mark
                 /\ call[p].nhooks = <<>>
                 /\ fileLock[node[p]][run_id[p]] # p

\* C8 witness: a node-phase call has failed in the readiness wait
C8_Witness ==
    \E p \in Procs :
        /\ Finished(p) /\ call[p].failedAt = "wait_ready"
        /\ ~marker[node[p]][run_id[p]]

\* the epsilon of C9: one poll interval
Epsilon == PollInterval

\* C9 as stated: a call that fails on the lock acquisition fails within
\* timeout + epsilon of being called
C9_WithinTimeoutOfCall ==
    \A p \in Procs :
        call[p].failedAt \in {"acquire_lock", "acquire_node_lock"}
           => clock[p] <= Timeout + Epsilon

\* C9 (amended): a call never waits for a lock longer than the timeout; one
\* that fails on the acquisition fails with AutoInitTimeoutError when the
\* acquisition has lasted the timeout, which is within 2 * timeout + one
\* poll interval of the call because the database wait or the readiness
\* wait comes first; it has called no core step and no hook of that phase,
\* set no readiness and created no marker.
C9_LockTimeoutBounded ==
    \A p \in Procs :
        /\ pc[p] \in {"acquire_lock", "acquire_node_lock"} => Elapsed(p) <= Timeout
        /\ call[p].failedAt \in {"acquire_lock", "acquire_node_lock"}
              => /\ pc[p] = "idle"
                 /\ Elapsed(p) = Timeout
                 /\ clock[p] <= 2 * Timeout + PollInterval
        /\ call[p].failedAt = "acquire_lock"
              => /\ call[p].ires = "AutoInitTimeoutError"
                 /\ ~call[p].pg /\ ~call[p].mig /\ ~call[p].set
                 /\ call[p].ihooks = <<>>
        /\ call[p].failedAt = "acquire_node_lock"
              => /\ call[p].nres = "AutoInitTimeoutError"
                 /\ ~call[p].fl /\ ~call[p].static /\ ~call[p].mark
                 /\ call[p].nhooks = <<>>

\* C9 witness: a cluster-phase call has failed on the lock 2 * timeout + one
\* poll interval after it was called
C9_Witness ==
    \E p \in Procs :
        /\ call[p].failedAt = "acquire_lock"
        /\ clock[p] = 2 * Timeout + PollInterval

\* the scenario of C10: every process has ended a cluster-phase call for run
\* id r, nothing raised in a body, the key was not set by hand and not lost
C10_Scenario(r) ==
    /\ \A p \in Procs : Finished(p) /\ run_id[p] = r /\ call[p].ires # "none"
    /\ hist[r].fail = 0
    /\ hist[r].manual = 0 /\ hist[r].lost = 0

\* C10 as stated (and the database reachable): in the scenario exactly one
\* process ran migrations, every call returned, readiness is set
C10_AllReturn ==
    \A r \in RunIds :
        (C10_Scenario(r) /\ \A p \in Procs : call[p].failedAt # "wait_db")
           => /\ hist[r].mig = 1
              /\ \A p \in Procs : call[p].ires = "ok"
              /\ cache[r]

\* C10 (amended): in the scenario at most one process ran migrations, no
\* call failed with anything but AutoInitTimeoutError, and if some call
\* returned or no database wait timed out then exactly one process ran
\* migrations and readiness is set.
C10_OneMigratesRestReturnOrTimeOut ==
    \A r \in RunIds :
        C10_Scenario(r)
           => /\ hist[r].mig <= 1
              /\ \A p \in Procs : call[p].ires \in {"ok", "AutoInitTimeoutError"}
              /\ ( \/ \E p \in Procs : call[p].ires = "ok"
                   \/ \A p \in Procs : call[p].failedAt # "wait_db" )
                    => hist[r].mig = 1 /\ cache[r]

\* C10 witness: in the scenario one process ran migrations and returned, the
\* other timed out on the lock
C10_Witness ==
    \E r \in RunIds, p, q \in Procs :
        /\ C10_Scenario(r)
        /\ call[p].mig /\ call[p].ires = "ok"
        /\ call[q].failedAt = "acquire_lock"

C12_SecondCallReturns ==
    \A p \in Procs :
        (call[p].nagain /\ call[p].nres # "none" /\ Finished(p))
           => /\ call[p].nres = "ok"
              /\ ~call[p].static
              /\ call[p].nhooks = <<>>

\* C12 (amended): the second call first waits for readiness like any call:
\* it fails with AutoInitTimeoutError when the key is no longer set, and
\* otherwise returns at the marker check before the lock; in both cases it
\* takes no lock, calls no core step and no hook, creates no marker.
C12_SecondCallSkipsOrTimesOut ==
    \A p \in Procs :
        (call[p].nagain /\ call[p].nres # "none")
           => /\ marker[node[p]][run_id[p]]
              /\ pc[p] \in {"wait_ready", "check_marker_1", "idle"}
              /\ ~call[p].fl /\ ~call[p].static /\ ~call[p].mark
              /\ call[p].nhooks = <<>>
              /\ call[p].nres \in {"running", "ok", "AutoInitTimeoutError"}
              /\ call[p].nres = "AutoInitTimeoutError"
                    => call[p].failedAt = "wait_ready" /\ ~call[p].sawReady
              /\ (pc[p] = "idle" /\ call[p].sawReady) => call[p].nres = "ok"

\* C12 witness: the second call has returned at the marker check,
\* collectstatic was called once in all
C12_Witness ==
    \E p \in Procs :
        /\ call[p].nagain /\ Finished(p) /\ call[p].nres = "ok"
        /\ nhist[node[p]][run_id[p]].static = 1
        /\ nhist[node[p]][run_id[p]].mark = 1

\* C13: the readiness wait of run_node_init ends towards the marker check
\* only on a poll that finds the key of the call's run id set, a poll that
\* finds it set never raises the timeout, and a waiting call whose key is
\* set gets past the wait unless the key is lost again before its next poll.
C13_WaitEndsWhenReady ==
    /\ [][\A p \in Procs :
            (pc[p] = "wait_ready" /\ pc'[p] # "wait_ready")
               => IF cache[run_id[p]]
                  THEN pc'[p] = "check_marker_1" /\ call'[p].sawReady
                  ELSE pc'[p] = "idle"
                       /\ call'[p].nres = "AutoInitTimeoutError"]_vars
    /\ \A p \in Procs :
          (pc[p] = "wait_ready" /\ cache[run_id[p]])
             ~> (pc[p] # "wait_ready" \/ ~cache[run_id[p]])

\* C13 witness: a call that slept in the wait before the key was set is at
\* the marker check
C13_Witness ==
    \E p \in Procs :
        /\ pc[p] = "check_marker_1"
        /\ clock[p] > 0
        /\ call[p].sawReady

\* C14: every started command ends: run_infrastructure_init and
\* run_node_init return or raise, whatever the database, the readiness key
\* and the other processes do, as each wait gives up once its timeout is
\* exceeded.
C14_EveryCallTerminates ==
    \A p \in Procs :
        (pc[p] # "idle") ~> (pc[p] = "idle" /\ exit_code[p] \in {0, 1})

\* C14 witness: one process has waited for the advisory lock until its
\* timeout and failed, another has returned from both phases
C14_Witness ==
    \E p, q \in Procs :
        /\ Finished(p) /\ call[p].failedAt = "acquire_lock"
        /\ Elapsed(p) >= Timeout
        /\ Finished(q) /\ call[q].ires = "ok" /\ call[q].nres = "ok"

\* C15: when fatal_on_error is set and a node hook has raised, the command
\* has ended with run_node_init failing with an error of the AutoInitError
\* family, the command's handler reporting FAILED, and exit status 1.
C15_FatalHookFailsAsAutoInitError ==
    \A p \in Procs :
        (fatal_on_error[p] /\ call[p].nraised # {})
           => /\ Finished(p)
              /\ IsAutoInitError(call[p].nres)
              /\ stdio[p] = "FAILED"
              /\ exit_code[p] = 1

\* C16: a marker that exists still exists after every step: no step of
\* run_node_init or of the management commands removes a marker.
C16_MarkerMonotone ==
    [][\A n \in Nodes, r \in RunIds : marker[n][r] => marker'[n][r]]_vars

\* C16 witness: both nodes hold the marker of a run id, the second was
\* created after the first, and the commands that created them have ended
C16_Witness ==
    \E r \in RunIds :
        /\ \A n \in Nodes : marker[n][r]
        /\ \A p \in Procs : Finished(p) /\ run_id[p] = r /\ call[p].mark

\* C17: on every step by which a call of run_infrastructure_init writes the
\* readiness key, the calling process holds the advisory lock before and
\* after the step, and since it took the lock it has called migrate and then
\* every cluster hook, in order, none of which raised.
C17_SetOnlyUnderLockAfterBody ==
    [][\A p \in Procs :
          (call'[p].set /\ ~call[p].set)
             => /\ pgLock = p /\ pgLock' = p
                /\ call[p].pg /\ call[p].mig
                /\ call[p].ihooks = Hooks
                /\ call[p].iraised = 0
                /\ cache'[run_id[p]]
                /\ hist'[run_id[p]].set = hist[run_id[p]].set + 1]_vars

\* C17 witness: a process has just written the key, still holding the lock
C17_Witness ==
    \E p \in Procs :
        /\ pc[p] = "release_lock" /\ pgLock = p
        /\ call[p].set /\ call[p].ihooks = Hooks /\ Len(Hooks) > 1
        /\ cache[run_id[p]]

\* C18 as stated: a call of run_node_init that failed left from the
\* readiness wait, from the lock acquisition or, with fatal_on_error, from a
\* node hook; without fatal_on_error a call that took the lock and found no
\* marker has, when it ends, created the marker and returned.
C18_FailsOnlyFromWaitLockOrFatalHook ==
    \A p \in Procs :
        (Finished(p) /\ call[p].nres # "none")
           => /\ call[p].nres # "ok"
                    => \/ call[p].failedAt \in {"wait_ready", "acquire_node_lock"}
                       \/ call[p].failedAt = "node_hooks" /\ fatal_on_error[p]
              /\ (~fatal_on_error[p] /\ call[p].static)
                    => call[p].nres = "ok" /\ call[p].mark

\* C18 (amended): a failed call left from the readiness wait, the lock
\* acquisition, the core step (collectstatic) or, with fatal_on_error, a
\* node hook; without fatal_on_error a call whose collectstatic returned
\* has, when it ends, called every hook, created the marker and returned.
C18_FailsAlsoFromCoreStep ==
    \A p \in Procs :
        (Finished(p) /\ call[p].nres # "none")
           => /\ call[p].nres # "ok"
                    => \/ call[p].failedAt \in {"wait_ready", "acquire_node_lock",
                                                "collectstatic"}
                       \/ call[p].failedAt = "node_hooks" /\ fatal_on_error[p]
              /\ call[p].failedAt \in {"wait_ready", "acquire_node_lock"}
                    <=> call[p].nres = "AutoInitTimeoutError"
              /\ (~fatal_on_error[p] /\ call[p].static
                                     /\ call[p].failedAt # "collectstatic")
                    => /\ call[p].nres = "ok"
                       /\ call[p].mark
                       /\ call[p].nhooks = Hooks

\* C18 witness: without fatal_on_error a call has failed in collectstatic,
\* holding the lock, and left no marker
C18_Witness ==
    \E p \in Procs :
        /\ Finished(p) /\ ~fatal_on_error[p]
        /\ call[p].fl /\ call[p].failedAt = "collectstatic"
        /\ ~marker[node[p]][run_id[p]]

\* the place of an app in INSTALLED_APPS
PositionOf(app) == CHOOSE i \in 1..NApps : INSTALLED_APPS[i] = app

\* the apps of INSTALLED_APPS that have the mixin
MixinApps == {INSTALLED_APPS[i] : i \in {j \in 1..NApps : IsAutoInitMixin(INSTALLED_APPS[j])}}

\* the hooks in s were called in INSTALLED_APPS order, each once, none of
\* the apps with the mixin before the last one skipped
InAppOrder(s) ==
    /\ \A i \in 1..Len(s) : s[i] \in MixinApps
    /\ \A i, j \in 1..Len(s) : i < j => PositionOf(s[i]) < PositionOf(s[j])
    /\ \A a \in MixinApps :
          (\E i \in 1..Len(s) : PositionOf(a) < PositionOf(s[i]))
             => \E i \in 1..Len(s) : s[i] = a

\* C19: in both phases the hooks a call has invoked are the apps with the
\* mixin in INSTALLED_APPS order, one after the other without a gap, after
\* the core step of the phase; all of them once the phase wrote readiness or
\* the marker; and the order is the same in the two phases of any two calls.
C19_HooksInAppOrder ==
    /\ \A p \in Procs :
          /\ InAppOrder(call[p].ihooks)
          /\ InAppOrder(call[p].nhooks)
          /\ call[p].ihooks # <<>> => call[p].mig
          /\ call[p].nhooks # <<>> => call[p].static
          /\ pc[p] = "infra_hooks" => hk[p] = Len(call[p].ihooks) + 1
          /\ pc[p] = "node_hooks" => hk[p] = Len(call[p].nhooks) + 1
          /\ call[p].set => {call[p].ihooks[i] : i \in 1..Len(call[p].ihooks)} = MixinApps
          /\ call[p].mark => {call[p].nhooks[i] : i \in 1..Len(call[p].nhooks)} = MixinApps
    /\ \A p, q \in Procs :
          \A i \in 1..Len(call[p].ihooks) :
             i <= Len(call[q].nhooks) => call[q].nhooks[i] = call[p].ihooks[i]

\* C19 witness: a command has called every hook in both phases and ended
C19_Witness ==
    \E p \in Procs :
        /\ Finished(p) /\ call[p].set /\ call[p].mark
        /\ Len(call[p].ihooks) > 1
        /\ call[p].nhooks = call[p].ihooks

\* the positions of run_node_init
NodePcs == {"wait_ready", "check_marker_1", "acquire_node_lock"} \cup NodeBodyPcs

\* C20: in the autoinit command the node phase is started only after the
\* cluster phase of the same command returned, with the run id, node and
\* flag the command was started with; when the cluster phase fails with an
\* AutoInitError the command has ended with FAILED and exit status 1 and its
\* node phase was never started.
C20_NodePhaseAfterClusterPhase ==
    /\ [](\A p \in Procs :
            cmd[p] = "autoinit"
               => /\ (pc[p] \in NodePcs \/ call[p].nres # "none")
                        => call[p].ires = "ok"
                  /\ call[p].ires \notin {"ok", "running", "none"}
                        => /\ IsAutoInitError(call[p].ires)
                           /\ pc[p] = "idle"
                           /\ exit_code[p] = 1 /\ stdio[p] = "FAILED"
                           /\ call[p].nres = "none"
                           /\ ~call[p].sawReady /\ ~call[p].fl
                           /\ ~call[p].static /\ ~call[p].mark
                           /\ call[p].nhooks = <<>>
                  /\ exit_code[p] = 0
                        => call[p].ires = "ok" /\ call[p].nres = "ok")
    /\ [][\A p \in Procs :
            pc[p] # "idle"
               => /\ run_id'[p] = run_id[p] /\ node'[p] = node[p]
                  /\ cmd'[p] = cmd[p] /\ fatal_on_error'[p] = fatal_on_error[p]
                  /\ (pc[p] \notin NodePcs /\ pc'[p] \in NodePcs)
                        => pc'[p] = "wait_ready" /\ call'[p].ires = "ok"]_vars

\* C20 witness: one autoinit command has ended on a failed cluster phase
\* without a node phase, another has ended after both phases
C20_Witness ==
    \E p, q \in Procs :
        /\ cmd[p] = "autoinit" /\ cmd[q] = "autoinit"
        /\ Finished(p) /\ call[p].ires = "AutoInitInfrastructureError"
        /\ call[p].nres = "none" /\ exit_code[p] = 1
        /\ Finished(q) /\ exit_code[q] = 0 /\ call[q].mark

\* C21: the advisory lock has one name for every run id: at most one process
\* is in the protected cluster-phase body at any time, whatever the run ids,
\* and a process enters the body only while no process of any run id is in
\* it.
C21_OneBodyAcrossRunIds ==
    /\ [](\A p, q \in Procs :
            (p # q /\ pc[p] \in InfraBodyPcs) => pc[q] \notin InfraBodyPcs)
    /\ [][\A p \in Procs :
            (pc[p] \notin InfraBodyPcs /\ pc'[p] \in InfraBodyPcs)
               => /\ pc[p] = "acquire_lock"
                  /\ \A q \in Procs : pc[q] \notin InfraBodyPcs]_vars

\* C21 witness: a process has waited for the lock while a process of the
\* other run id is in the body
C21_Witness ==
    \E p, q \in Procs :
        /\ run_id[p] # run_id[q]
        /\ pc[p] \in {"migrate", "infra_hooks"} /\ pgLock = p
        /\ pc[q] = "acquire_lock" /\ Elapsed(q) >= PollInterval

\* C22: run_infrastructure_init returns normally only on a step on which the
\* readiness key of its run id is set (the check before the lock or the one
\* inside it) or after the call itself has written the key, the key being
\* set right after that write; a call that has returned has either skipped
\* the body at one of the two checks or run it to the readiness write.
C22_ReturnsOnlyWithReadiness ==
    /\ [](\A p \in Procs :
            call[p].ires = "ok"
               => \/ ~call[p].mig /\ ~call[p].set /\ call[p].ihooks = <<>>
                  \/ call[p].pg /\ call[p].mig /\ call[p].set
                       /\ call[p].ihooks = Hooks /\ call[p].iraised = 0)
    /\ [][\A p \in Procs :
            /\ (call[p].ires = "running" /\ call'[p].ires = "ok")
                  => IF call[p].set
                     THEN pc[p] = "release_lock"
                     ELSE /\ cache[run_id[p]]
                          /\ pc[p] \in {"check_ready_1", "check_ready_2"}
            /\ (~call[p].set /\ call'[p].set) => cache'[run_id[p]]]_vars

\* C22 witness: a call has returned at the check before the lock and the key
\* it saw has been lost since, while the key of the other run id was never
\* set
C22_Witness ==
    \E p \in Procs :
        /\ Finished(p) /\ call[p].ires = "ok" /\ ~call[p].pg
        /\ ~cache[run_id[p]] /\ hist[run_id[p]].lost = 1
        /\ \A r \in RunIds : r # run_id[p] => hist[r].set = 0 /\ hist[r].manual = 0

\* the apps whose hook was called in the list s
Called(s) == {s[i] : i \in 1..Len(s)}

\* C23: a failed attempt of the cluster phase leaves the readiness key and
\* the markers as they were and the lock free; a process inside the lock
\* that finds the key unset goes on to migrate, whatever failed before, and
\* then calls the hooks from the first one; so the core step and every hook
\* that two attempts for a run id both reached were called twice or more
\* for that run id.
C23_FailedAttemptIsRerun ==
    /\ [](\A p \in Procs :
            /\ pc[p] = "migrate" => hk[p] = 1 /\ call[p].ihooks = <<>>
            /\ pc[p] = "infra_hooks"
                  => /\ hk[p] \in 1..Len(Hooks)
                     /\ call[p].ihooks = SubSeq(Hooks, 1, hk[p] - 1))
    /\ [](\A p, q \in Procs :
            (p # q /\ run_id[p] = run_id[q] /\ call[p].mig /\ call[q].mig)
               => /\ hist[run_id[p]].mig >= 2
                  /\ \A a \in Called(call[p].ihooks) \cap Called(call[q].ihooks) :
                        hist[run_id[p]].hooks[a] >= 2)
    /\ [][\A p \in Procs :
            /\ (call[p].ires = "running"
                  /\ call'[p].ires = "AutoInitInfrastructureError")
                  => /\ cache' = cache /\ marker' = marker
                     /\ pgLock = p /\ pgLock' = NoProc
            /\ (pc[p] = "check_ready_2" /\ ~cache[run_id[p]] /\ pc'[p] # pc[p])
                  => pc'[p] = "migrate" /\ hk'[p] = 1]_vars

\* C23 witness: an attempt failed at a hook after the first, the key was
\* never set by hand nor lost, and another process has completed the body
\* for the same run id: the first hook was called twice
C23_Witness ==
    \E p, q \in Procs :
        /\ p # q /\ run_id[p] = run_id[q]
        /\ Finished(q) /\ call[q].failedAt = "infra_hooks"
        /\ Len(call[q].ihooks) >= 2
        /\ call[p].set /\ call[p].ihooks = Hooks
        /\ hist[run_id[p]].hooks[Hooks[1]] = 2
        /\ hist[run_id[p]].manual = 0 /\ hist[run_id[p]].lost = 0

\* C24: run_node_init looks at the marker only after the readiness wait has
\* seen the key: a call leaves the wait with the key unset only by failing
\* with AutoInitTimeoutError after more than the timeout, marker or no
\* marker, and it returns at the marker check before the lock only from that
\* check, having seen the key; a call that failed in the wait has taken no
\* lock and called neither collectstatic nor a hook.
C24_MarkerOnlyAfterReadiness ==
    /\ [](\A p \in Procs :
            /\ pc[p] = "check_marker_1" => call[p].sawReady
            /\ call[p].failedAt = "wait_ready"
                  => /\ call[p].nres = "AutoInitTimeoutError"
                     /\ ~call[p].sawReady /\ ~call[p].fl /\ ~call[p].static
                     /\ ~call[p].mark /\ call[p].nhooks = <<>>
                     /\ exit_code[p] = 1)
    /\ [][\A p \in Procs :
            /\ (pc[p] = "wait_ready" /\ ~cache[run_id[p]] /\ pc'[p] # pc[p])
                  => /\ pc'[p] = "idle"
                     /\ call'[p].nres = "AutoInitTimeoutError"
                     /\ Elapsed(p) > Timeout
                     /\ marker' = marker /\ nhist' = nhist
            /\ (call[p].nres = "running" /\ call'[p].nres = "ok" /\ ~call[p].fl)
                  => /\ pc[p] = "check_marker_1"
                     /\ call[p].sawReady
                     /\ marker[node[p]][run_id[p]]]_vars

\* C24 witness: the marker of the node and run id exists, the key is gone,
\* and a call has failed in the readiness wait
C24_Witness ==
    \E p \in Procs :
        /\ Finished(p) /\ call[p].nres = "AutoInitTimeoutError"
        /\ call[p].failedAt = "wait_ready"
        /\ marker[node[p]][run_id[p]] /\ ~cache[run_id[p]]
        /\ nhist[node[p]][run_id[p]].static = 1

====
